---- MODULE Spec2Model ----
(***************************************************************************)
(* Model of the RV32I simulator core of src/src/main.rs: CoreState, the    *)
(* decoder, execute(), reset() and the test loop of main().                *)
(*                                                                         *)
(* Representation of machine words.  A u32 is held as the integer that has *)
(* the same 32-bit two's-complement pattern, i.e. a value in               *)
(* -2^31 .. 2^31-1 (0xFFFFFFFF is -1, 0x80000000 is MinI32).  `x as i32`   *)
(* and `x as u32` are therefore the identity on the representation, and    *)
(* unsigned order, carries and borrows are computed explicitly.            *)
(***************************************************************************)
EXTENDS Integers, Sequences, FiniteSets, TLC

\* i32::MIN, the pattern 0x8000_0000
MinI32 == -2147483647 - 1

RECURSIVE Pow2(_)
Pow2(n) == IF n = 0 THEN 1 ELSE 2 * Pow2(n - 1)

\* the two 16-bit halves of a word, both as unsigned numbers
Lo16(a) == a % 65536
Hi16(a) == (a \div 65536) % 65536
FromHalves(h, l) == (IF h >= 32768 THEN h - 65536 ELSE h) * 65536 + l

\* u32 `a + b`: the wrapped sum, and whether the true sum leaves the type
WrapAdd(a, b) ==
    LET lo == Lo16(a) + Lo16(b)
        hi == Hi16(a) + Hi16(b) + (lo \div 65536)
    IN  FromHalves(hi % 65536, lo % 65536)
AddOverflows(a, b) ==
    LET lo == Lo16(a) + Lo16(b)
        hi == Hi16(a) + Hi16(b) + (lo \div 65536)
    IN  hi >= 65536

\* unsigned `a < b` on two words
ULt(a, b) == IF (a < 0) = (b < 0) THEN a < b ELSE b < 0

\* u32 `a - b`: the wrapped difference; the true difference is negative iff a < b
WrapSub(a, b) ==
    LET lo == Lo16(a) - Lo16(b)
        hi == Hi16(a) - Hi16(b) + (lo \div 65536)
    IN  FromHalves(hi % 65536, lo % 65536)
SubOverflows(a, b) == ULt(a, b)

\* bitwise operators on words (two's-complement patterns)
RECURSIVE BitAnd(_, _)
BitAnd(a, b) ==
    IF a = 0 \/ b = 0 THEN 0
    ELSE IF a = -1 THEN b
    ELSE IF b = -1 THEN a
    ELSE ((a % 2) * (b % 2)) + 2 * BitAnd(a \div 2, b \div 2)

RECURSIVE BitOr(_, _)
BitOr(a, b) ==
    IF a = 0 THEN b
    ELSE IF b = 0 THEN a
    ELSE IF a = -1 \/ b = -1 THEN -1
    ELSE (IF (a % 2) + (b % 2) > 0 THEN 1 ELSE 0) + 2 * BitOr(a \div 2, b \div 2)

RECURSIVE BitXor(_, _)
BitXor(a, b) ==
    IF a = 0 THEN b
    ELSE IF b = 0 THEN a
    ELSE IF a = -1 THEN -1 - b
    ELSE IF b = -1 THEN -1 - a
    ELSE (((a % 2) + (b % 2)) % 2) + 2 * BitXor(a \div 2, b \div 2)

\* i32 `a >> n` (arithmetic), u32 `a >> n` (logical) and u32 `a << n`, 0 <= n <= 31
Sar(a, n) == IF n = 31 THEN (IF a < 0 THEN -1 ELSE 0) ELSE a \div Pow2(n)
Shr(a, n) ==
    IF n = 0 THEN a
    ELSE LET half == IF a >= 0 THEN a \div 2
                     ELSE ((a \div 2) + 1073741824) + 1073741824
         IN  half \div Pow2(n - 1)
RECURSIVE Shl(_, _)
Shl(a, n) ==
    IF n = 0 THEN a
    ELSE LET low == (a % 1073741824) * 2
             top == (a \div 1073741824) % 2
         IN  Shl(IF top = 1 THEN low + MinI32 ELSE low, n - 1)

(***************************************************************************)
(* Cause and Csr                                                           *)
(***************************************************************************)
Cause == {"InstructionAddressMisaligned", "InstructionAccessFault",
          "IllegalInstruction", "Breakpoint", "LoadAddressMisaligned",
          "LoadAccessFault", "StoreAmoAddressMisaligned",
          "StoreAmoAccessFault", "Mcall", "SoftwareCheck", "HardwareError"}

get_cause_value(cause) ==
    CASE cause = "InstructionAddressMisaligned" -> 0
      [] cause = "InstructionAccessFault" -> 1
      [] cause = "IllegalInstruction" -> 2
      [] cause = "Breakpoint" -> 3
      [] cause = "LoadAddressMisaligned" -> 4
      [] cause = "LoadAccessFault" -> 5
      [] cause = "StoreAmoAddressMisaligned" -> 6
      [] cause = "StoreAmoAccessFault" -> 7
      [] cause = "Mcall" -> 11
      [] cause = "SoftwareCheck" -> 18
      [] cause = "HardwareError" -> 19

\* Csr::get_csr: the identifier of a 12-bit address, "None" when unmapped
get_csr(address) ==
    CASE address = 3857 -> "MVendorId"      \* 0xF11
      [] address = 3858 -> "MArchId"        \* 0xF12
      [] address = 3859 -> "MImpId"         \* 0xF13
      [] address = 3860 -> "MHartId"        \* 0xF14
      [] address = 3861 -> "MConfigPtr"     \* 0xF15
      [] address = 768 -> "MStatus"         \* 0x300
      [] address = 769 -> "MIsa"            \* 0x301
      [] address = 772 -> "MIe"             \* 0x304
      [] address = 773 -> "MTvec"           \* 0x305
      [] address = 832 -> "MScratch"        \* 0x340
      [] address = 833 -> "MEpc"            \* 0x341
      [] address = 834 -> "MCause"          \* 0x342
      [] address = 835 -> "MTVal"           \* 0x343
      [] address = 836 -> "MIp"             \* 0x344
      [] OTHER -> "None"

MEMORY_SIZE == 4096

Bool2Int(b) == IF b THEN 1 ELSE 0

\* a value s of CoreState is a record with the fields of the struct
get_csr_value(s, csr) ==
    CASE csr = "MIsa" -> BitOr(BitOr(Shl(1, 30), Shl(1, 8)), Shl(1, 12))
      [] csr = "MVendorId" -> 0
      [] csr = "MArchId" -> 0
      [] csr = "MImpId" -> 0
      [] csr = "MHartId" -> 0
      [] csr = "MStatus" -> BitOr(BitOr(Shl(3, 11), Shl(Bool2Int(s.mie), 3)),
                                  Shl(Bool2Int(s.mpie), 7))
      [] csr = "MIe" -> 0
      [] csr = "MTvec" -> s.mtvec
      [] csr = "MScratch" -> s.mscratch
      [] csr = "MEpc" -> s.mepc
      [] csr = "MCause" -> get_cause_value(s.mcause)
      [] csr = "MTVal" -> s.mtval
      [] csr = "MIp" -> 0
      [] csr = "MConfigPtr" -> 0

\* set_csr_value that takes the mie CSR for the MIE flag of mstatus
set_csr_value_MIe(s, csr, value) ==
    CASE csr = "MStatus" -> [s EXCEPT !.mie = BitAnd(Shr(value, 3), 1) # 0,
                                      !.mpie = BitAnd(Shr(value, 7), 1) # 0]
      [] csr = "MIe" -> [s EXCEPT !.mie = value # 0]
      [] csr = "MTvec" -> [s EXCEPT !.mtvec = value]
      [] csr = "MScratch" -> [s EXCEPT !.mscratch = value]
      [] csr = "MEpc" -> [s EXCEPT !.mepc = value]
      [] csr = "MTVal" -> [s EXCEPT !.mtval = value]
      [] OTHER -> s

set_csr_value(s, csr, value) ==
    CASE csr = "MStatus" -> [s EXCEPT !.mie = BitAnd(Shr(value, 3), 1) # 0,
                                      !.mpie = BitAnd(Shr(value, 7), 1) # 0]
      [] csr = "MTvec" -> [s EXCEPT !.mtvec = value]
      [] csr = "MScratch" -> [s EXCEPT !.mscratch = value]
      [] csr = "MEpc" -> [s EXCEPT !.mepc = value]
      [] csr = "MTVal" -> [s EXCEPT !.mtval = value]
      [] OTHER -> s

(***************************************************************************)
(* CoreState::decode                                                       *)
(***************************************************************************)
IllegalInstruction == [op |-> "IllegalInstruction", args |-> <<>>]

Instr(op, args) == [op |-> op, args |-> args]

\* decode with ECALL matched as (0, 0, _, 0, _)
decode_EcallAnyReg(instruction) ==
    LET opcode == BitAnd(instruction, 127)
        funct3 == BitAnd(Shr(instruction, 12), 7)
        funct7 == BitAnd(Shr(instruction, 25), 127)
        rs1 == BitAnd(Shr(instruction, 15), 31)
        rs2 == BitAnd(Shr(instruction, 20), 31)
        rd == BitAnd(Shr(instruction, 7), 31)
        shamt == rs2
        csr == BitAnd(Shr(instruction, 20), 4095)
        \* 0xFFF00000
        imm_i == Sar(BitAnd(instruction, -1048576), 20)
        imm_s ==
            LET imm_11_5 == BitAnd(instruction, -33554432)   \* 0xFE000000
                imm_4_0 == BitAnd(Shr(instruction, 7), 31)
            IN  BitOr(Sar(imm_11_5, 20), imm_4_0)
        imm_b ==
            LET imm_12 == Sar(BitAnd(instruction, MinI32), 19)
                imm_11 == Shl(BitAnd(instruction, 128), 4)
                imm_10_5 == BitAnd(Shr(instruction, 20), 2016)   \* 0x7E0
                imm_4_1 == BitAnd(Shr(instruction, 7), 30)       \* 0x1E
            IN  BitOr(BitOr(BitOr(imm_12, imm_11), imm_10_5), imm_4_1)
        imm_u == BitAnd(instruction, -4096)                  \* 0xFFFFF000
        imm_j ==
            LET imm_20 == Sar(BitAnd(instruction, MinI32), 11)
                imm_19_12 == BitAnd(instruction, 1044480)        \* 0x000FF000
                imm_11 == Shr(BitAnd(instruction, 1048576), 9)   \* 0x00100000
                imm_10_1 == Shr(BitAnd(instruction, 2145386496), 20) \* 0x7FE00000
            IN  BitOr(BitOr(BitOr(imm_20, imm_19_12), imm_11), imm_10_1)
        args_r == [rs1 |-> rs1, rs2 |-> rs2, rd |-> rd]
        args_i == [rs1 |-> rs1, rd |-> rd, imm |-> imm_i, shamt |-> shamt, csr |-> csr]
        args_s == [rs1 |-> rs1, rs2 |-> rs2, imm |-> imm_s]
        args_b == [rs1 |-> rs1, rs2 |-> rs2, imm |-> imm_b]
        args_u == [rd |-> rd, imm |-> imm_u]
        args_j == [rd |-> rd, imm |-> imm_j]
    IN
    CASE opcode = 55 -> Instr("Lui", args_u)
      [] opcode = 23 -> Instr("Auipc", args_u)
      [] opcode = 111 -> Instr("Jal", args_j)
      [] opcode = 103 ->
            IF funct3 = 0 THEN Instr("Jalr", args_i) ELSE IllegalInstruction
      [] opcode = 99 ->
            CASE funct3 = 0 -> Instr("Beq", args_b)
              [] funct3 = 1 -> Instr("Bne", args_b)
              [] funct3 = 4 -> Instr("Blt", args_b)
              [] funct3 = 5 -> Instr("Bge", args_b)
              [] funct3 = 6 -> Instr("Bltu", args_b)
              [] funct3 = 7 -> Instr("Bgeu", args_b)
              [] OTHER -> IllegalInstruction
      [] opcode = 3 ->
            CASE funct3 = 0 -> Instr("Lb", args_i)
              [] funct3 = 1 -> Instr("Lh", args_i)
              [] funct3 = 2 -> Instr("Lw", args_i)
              [] funct3 = 4 -> Instr("Lbu", args_i)
              [] funct3 = 5 -> Instr("Lhu", args_i)
              [] OTHER -> IllegalInstruction
      [] opcode = 35 ->
            CASE funct3 = 0 -> Instr("Sb", args_s)
              [] funct3 = 1 -> Instr("Sh", args_s)
              [] funct3 = 2 -> Instr("Sw", args_s)
              [] OTHER -> IllegalInstruction
      [] opcode = 19 ->
            CASE funct3 = 0 -> Instr("Addi", args_i)
              [] funct3 = 2 -> Instr("Slti", args_i)
              [] funct3 = 3 -> Instr("Sltiu", args_i)
              [] funct3 = 4 -> Instr("Xori", args_i)
              [] funct3 = 6 -> Instr("Ori", args_i)
              [] funct3 = 7 -> Instr("Andi", args_i)
              [] funct3 = 1 ->
                    IF funct7 = 0 THEN Instr("Slli", args_i) ELSE IllegalInstruction
              [] funct3 = 5 ->
                    CASE funct7 = 0 -> Instr("Srli", args_i)
                      [] funct7 = 32 -> Instr("Srai", args_i)
                      [] OTHER -> IllegalInstruction
              [] OTHER -> IllegalInstruction
      [] opcode = 51 ->
            CASE funct7 = 0 ->
                    CASE funct3 = 0 -> Instr("Add", args_r)
                      [] funct3 = 1 -> Instr("Sll", args_r)
                      [] funct3 = 2 -> Instr("Slt", args_r)
                      [] funct3 = 3 -> Instr("Sltu", args_r)
                      [] funct3 = 4 -> Instr("Xor", args_r)
                      [] funct3 = 5 -> Instr("Srl", args_r)
                      [] funct3 = 6 -> Instr("Or", args_r)
                      [] funct3 = 7 -> Instr("And", args_r)
                      [] OTHER -> IllegalInstruction
              [] funct7 = 32 ->
                    CASE funct3 = 0 -> Instr("Sub", args_r)
                      [] funct3 = 5 -> Instr("Sra", args_r)
                      [] OTHER -> IllegalInstruction
              [] OTHER -> IllegalInstruction
      [] opcode = 15 -> Instr("Fence", <<>>)
      [] opcode = 115 ->
            LET t == <<funct7, rs2, rs1, funct3, rd>> IN
            IF <<funct7, rs2, funct3>> = <<0, 0, 0>> THEN Instr("Ecall", <<>>)
            ELSE IF t = <<0, 1, 0, 0, 0>> THEN Instr("Ebreak", <<>>)
            ELSE IF t = <<24, 2, 0, 0, 0>> THEN Instr("Mret", <<>>)
            ELSE IF t = <<8, 5, 0, 0, 0>> THEN Instr("Wfi", <<>>)
            ELSE IF funct3 = 1 THEN Instr("Csrrw", args_i)
            ELSE IF funct3 = 2 THEN Instr("Csrrs", args_i)
            ELSE IF funct3 = 3 THEN Instr("Csrrc", args_i)
            ELSE IF funct3 = 5 THEN Instr("Csrrwi", args_i)
            ELSE IF funct3 = 6 THEN Instr("Csrrsi", args_i)
            ELSE IF funct3 = 7 THEN Instr("Csrrci", args_i)
            ELSE IllegalInstruction
      [] OTHER -> IllegalInstruction

\* decode with the I immediate shifted as u32, without the cast to i32
decode_ImmINoSign(instruction) ==
    LET opcode == BitAnd(instruction, 127)
        funct3 == BitAnd(Shr(instruction, 12), 7)
        funct7 == BitAnd(Shr(instruction, 25), 127)
        rs1 == BitAnd(Shr(instruction, 15), 31)
        rs2 == BitAnd(Shr(instruction, 20), 31)
        rd == BitAnd(Shr(instruction, 7), 31)
        shamt == rs2
        csr == BitAnd(Shr(instruction, 20), 4095)
        \* 0xFFF00000
        imm_i == Shr(BitAnd(instruction, -1048576), 20)
        imm_s ==
            LET imm_11_5 == BitAnd(instruction, -33554432)   \* 0xFE000000
                imm_4_0 == BitAnd(Shr(instruction, 7), 31)
            IN  BitOr(Sar(imm_11_5, 20), imm_4_0)
        imm_b ==
            LET imm_12 == Sar(BitAnd(instruction, MinI32), 19)
                imm_11 == Shl(BitAnd(instruction, 128), 4)
                imm_10_5 == BitAnd(Shr(instruction, 20), 2016)   \* 0x7E0
                imm_4_1 == BitAnd(Shr(instruction, 7), 30)       \* 0x1E
            IN  BitOr(BitOr(BitOr(imm_12, imm_11), imm_10_5), imm_4_1)
        imm_u == BitAnd(instruction, -4096)                  \* 0xFFFFF000
        imm_j ==
            LET imm_20 == Sar(BitAnd(instruction, MinI32), 11)
                imm_19_12 == BitAnd(instruction, 1044480)        \* 0x000FF000
                imm_11 == Shr(BitAnd(instruction, 1048576), 9)   \* 0x00100000
                imm_10_1 == Shr(BitAnd(instruction, 2145386496), 20) \* 0x7FE00000
            IN  BitOr(BitOr(BitOr(imm_20, imm_19_12), imm_11), imm_10_1)
        args_r == [rs1 |-> rs1, rs2 |-> rs2, rd |-> rd]
        args_i == [rs1 |-> rs1, rd |-> rd, imm |-> imm_i, shamt |-> shamt, csr |-> csr]
        args_s == [rs1 |-> rs1, rs2 |-> rs2, imm |-> imm_s]
        args_b == [rs1 |-> rs1, rs2 |-> rs2, imm |-> imm_b]
        args_u == [rd |-> rd, imm |-> imm_u]
        args_j == [rd |-> rd, imm |-> imm_j]
    IN
    CASE opcode = 55 -> Instr("Lui", args_u)
      [] opcode = 23 -> Instr("Auipc", args_u)
      [] opcode = 111 -> Instr("Jal", args_j)
      [] opcode = 103 ->
            IF funct3 = 0 THEN Instr("Jalr", args_i) ELSE IllegalInstruction
      [] opcode = 99 ->
            CASE funct3 = 0 -> Instr("Beq", args_b)
              [] funct3 = 1 -> Instr("Bne", args_b)
              [] funct3 = 4 -> Instr("Blt", args_b)
              [] funct3 = 5 -> Instr("Bge", args_b)
              [] funct3 = 6 -> Instr("Bltu", args_b)
              [] funct3 = 7 -> Instr("Bgeu", args_b)
              [] OTHER -> IllegalInstruction
      [] opcode = 3 ->
            CASE funct3 = 0 -> Instr("Lb", args_i)
              [] funct3 = 1 -> Instr("Lh", args_i)
              [] funct3 = 2 -> Instr("Lw", args_i)
              [] funct3 = 4 -> Instr("Lbu", args_i)
              [] funct3 = 5 -> Instr("Lhu", args_i)
              [] OTHER -> IllegalInstruction
      [] opcode = 35 ->
            CASE funct3 = 0 -> Instr("Sb", args_s)
              [] funct3 = 1 -> Instr("Sh", args_s)
              [] funct3 = 2 -> Instr("Sw", args_s)
              [] OTHER -> IllegalInstruction
      [] opcode = 19 ->
            CASE funct3 = 0 -> Instr("Addi", args_i)
              [] funct3 = 2 -> Instr("Slti", args_i)
              [] funct3 = 3 -> Instr("Sltiu", args_i)
              [] funct3 = 4 -> Instr("Xori", args_i)
              [] funct3 = 6 -> Instr("Ori", args_i)
              [] funct3 = 7 -> Instr("Andi", args_i)
              [] funct3 = 1 ->
                    IF funct7 = 0 THEN Instr("Slli", args_i) ELSE IllegalInstruction
              [] funct3 = 5 ->
                    CASE funct7 = 0 -> Instr("Srli", args_i)
                      [] funct7 = 32 -> Instr("Srai", args_i)
                      [] OTHER -> IllegalInstruction
              [] OTHER -> IllegalInstruction
      [] opcode = 51 ->
            CASE funct7 = 0 ->
                    CASE funct3 = 0 -> Instr("Add", args_r)
                      [] funct3 = 1 -> Instr("Sll", args_r)
                      [] funct3 = 2 -> Instr("Slt", args_r)
                      [] funct3 = 3 -> Instr("Sltu", args_r)
                      [] funct3 = 4 -> Instr("Xor", args_r)
                      [] funct3 = 5 -> Instr("Srl", args_r)
                      [] funct3 = 6 -> Instr("Or", args_r)
                      [] funct3 = 7 -> Instr("And", args_r)
                      [] OTHER -> IllegalInstruction
              [] funct7 = 32 ->
                    CASE funct3 = 0 -> Instr("Sub", args_r)
                      [] funct3 = 5 -> Instr("Sra", args_r)
                      [] OTHER -> IllegalInstruction
              [] OTHER -> IllegalInstruction
      [] opcode = 15 -> Instr("Fence", <<>>)
      [] opcode = 115 ->
            LET t == <<funct7, rs2, rs1, funct3, rd>> IN
            IF t = <<0, 0, 0, 0, 0>> THEN Instr("Ecall", <<>>)
            ELSE IF t = <<0, 1, 0, 0, 0>> THEN Instr("Ebreak", <<>>)
            ELSE IF t = <<24, 2, 0, 0, 0>> THEN Instr("Mret", <<>>)
            ELSE IF t = <<8, 5, 0, 0, 0>> THEN Instr("Wfi", <<>>)
            ELSE IF funct3 = 1 THEN Instr("Csrrw", args_i)
            ELSE IF funct3 = 2 THEN Instr("Csrrs", args_i)
            ELSE IF funct3 = 3 THEN Instr("Csrrc", args_i)
            ELSE IF funct3 = 5 THEN Instr("Csrrwi", args_i)
            ELSE IF funct3 = 6 THEN Instr("Csrrsi", args_i)
            ELSE IF funct3 = 7 THEN Instr("Csrrci", args_i)
            ELSE IllegalInstruction
      [] OTHER -> IllegalInstruction

decode(instruction) ==
    LET opcode == BitAnd(instruction, 127)
        funct3 == BitAnd(Shr(instruction, 12), 7)
        funct7 == BitAnd(Shr(instruction, 25), 127)
        rs1 == BitAnd(Shr(instruction, 15), 31)
        rs2 == BitAnd(Shr(instruction, 20), 31)
        rd == BitAnd(Shr(instruction, 7), 31)
        shamt == rs2
        csr == BitAnd(Shr(instruction, 20), 4095)
        \* 0xFFF00000
        imm_i == Sar(BitAnd(instruction, -1048576), 20)
        imm_s ==
            LET imm_11_5 == BitAnd(instruction, -33554432)   \* 0xFE000000
                imm_4_0 == BitAnd(Shr(instruction, 7), 31)
            IN  BitOr(Sar(imm_11_5, 20), imm_4_0)
        imm_b ==
            LET imm_12 == Sar(BitAnd(instruction, MinI32), 19)
                imm_11 == Shl(BitAnd(instruction, 128), 4)
                imm_10_5 == BitAnd(Shr(instruction, 20), 2016)   \* 0x7E0
                imm_4_1 == BitAnd(Shr(instruction, 7), 30)       \* 0x1E
            IN  BitOr(BitOr(BitOr(imm_12, imm_11), imm_10_5), imm_4_1)
        imm_u == BitAnd(instruction, -4096)                  \* 0xFFFFF000
        imm_j ==
            LET imm_20 == Sar(BitAnd(instruction, MinI32), 11)
                imm_19_12 == BitAnd(instruction, 1044480)        \* 0x000FF000
                imm_11 == Shr(BitAnd(instruction, 1048576), 9)   \* 0x00100000
                imm_10_1 == Shr(BitAnd(instruction, 2145386496), 20) \* 0x7FE00000
            IN  BitOr(BitOr(BitOr(imm_20, imm_19_12), imm_11), imm_10_1)
        args_r == [rs1 |-> rs1, rs2 |-> rs2, rd |-> rd]
        args_i == [rs1 |-> rs1, rd |-> rd, imm |-> imm_i, shamt |-> shamt, csr |-> csr]
        args_s == [rs1 |-> rs1, rs2 |-> rs2, imm |-> imm_s]
        args_b == [rs1 |-> rs1, rs2 |-> rs2, imm |-> imm_b]
        args_u == [rd |-> rd, imm |-> imm_u]
        args_j == [rd |-> rd, imm |-> imm_j]
    IN
    CASE opcode = 55 -> Instr("Lui", args_u)
      [] opcode = 23 -> Instr("Auipc", args_u)
      [] opcode = 111 -> Instr("Jal", args_j)
      [] opcode = 103 ->
            IF funct3 = 0 THEN Instr("Jalr", args_i) ELSE IllegalInstruction
      [] opcode = 99 ->
            CASE funct3 = 0 -> Instr("Beq", args_b)
              [] funct3 = 1 -> Instr("Bne", args_b)
              [] funct3 = 4 -> Instr("Blt", args_b)
              [] funct3 = 5 -> Instr("Bge", args_b)
              [] funct3 = 6 -> Instr("Bltu", args_b)
              [] funct3 = 7 -> Instr("Bgeu", args_b)
              [] OTHER -> IllegalInstruction
      [] opcode = 3 ->
            CASE funct3 = 0 -> Instr("Lb", args_i)
              [] funct3 = 1 -> Instr("Lh", args_i)
              [] funct3 = 2 -> Instr("Lw", args_i)
              [] funct3 = 4 -> Instr("Lbu", args_i)
              [] funct3 = 5 -> Instr("Lhu", args_i)
              [] OTHER -> IllegalInstruction
      [] opcode = 35 ->
            CASE funct3 = 0 -> Instr("Sb", args_s)
              [] funct3 = 1 -> Instr("Sh", args_s)
              [] funct3 = 2 -> Instr("Sw", args_s)
              [] OTHER -> IllegalInstruction
      [] opcode = 19 ->
            CASE funct3 = 0 -> Instr("Addi", args_i)
              [] funct3 = 2 -> Instr("Slti", args_i)
              [] funct3 = 3 -> Instr("Sltiu", args_i)
              [] funct3 = 4 -> Instr("Xori", args_i)
              [] funct3 = 6 -> Instr("Ori", args_i)
              [] funct3 = 7 -> Instr("Andi", args_i)
              [] funct3 = 1 ->
                    IF funct7 = 0 THEN Instr("Slli", args_i) ELSE IllegalInstruction
              [] funct3 = 5 ->
                    CASE funct7 = 0 -> Instr("Srli", args_i)
                      [] funct7 = 32 -> Instr("Srai", args_i)
                      [] OTHER -> IllegalInstruction
              [] OTHER -> IllegalInstruction
      [] opcode = 51 ->
            CASE funct7 = 0 ->
                    CASE funct3 = 0 -> Instr("Add", args_r)
                      [] funct3 = 1 -> Instr("Sll", args_r)
                      [] funct3 = 2 -> Instr("Slt", args_r)
                      [] funct3 = 3 -> Instr("Sltu", args_r)
                      [] funct3 = 4 -> Instr("Xor", args_r)
                      [] funct3 = 5 -> Instr("Srl", args_r)
                      [] funct3 = 6 -> Instr("Or", args_r)
                      [] funct3 = 7 -> Instr("And", args_r)
                      [] OTHER -> IllegalInstruction
              [] funct7 = 32 ->
                    CASE funct3 = 0 -> Instr("Sub", args_r)
                      [] funct3 = 5 -> Instr("Sra", args_r)
                      [] OTHER -> IllegalInstruction
              [] OTHER -> IllegalInstruction
      [] opcode = 15 -> Instr("Fence", <<>>)
      [] opcode = 115 ->
            LET t == <<funct7, rs2, rs1, funct3, rd>> IN
            IF t = <<0, 0, 0, 0, 0>> THEN Instr("Ecall", <<>>)
            ELSE IF t = <<0, 1, 0, 0, 0>> THEN Instr("Ebreak", <<>>)
            ELSE IF t = <<24, 2, 0, 0, 0>> THEN Instr("Mret", <<>>)
            ELSE IF t = <<8, 5, 0, 0, 0>> THEN Instr("Wfi", <<>>)
            ELSE IF funct3 = 1 THEN Instr("Csrrw", args_i)
            ELSE IF funct3 = 2 THEN Instr("Csrrs", args_i)
            ELSE IF funct3 = 3 THEN Instr("Csrrc", args_i)
            ELSE IF funct3 = 5 THEN Instr("Csrrwi", args_i)
            ELSE IF funct3 = 6 THEN Instr("Csrrsi", args_i)
            ELSE IF funct3 = 7 THEN Instr("Csrrci", args_i)
            ELSE IllegalInstruction
      [] OTHER -> IllegalInstruction

(***************************************************************************)
(* CoreState::execute.  A value of CoreState is a record s; an arm of the  *)
(* match yields the state it leaves behind, whether it panicked (and why)  *)
(* and whether it set `exception`.  A panic keeps the writes made before   *)
(* it.  chk is the build's overflow-checks setting: with it a u32          *)
(* `+`/`-` that leaves the type panics, without it the result wraps.       *)
(* usize is taken to be 64 bits wide, so `address + 3` on usize is exact.  *)
(***************************************************************************)
Ok(s) == [s |-> s, panic |-> "none", exception |-> FALSE]
Raise(s) == [s |-> s, panic |-> "none", exception |-> TRUE]
Panic(s, why) == [s |-> s, panic |-> why, exception |-> FALSE]

\* `memory: [u8; MEMORY_SIZE]` is held sparsely: the array starts all zero, and
\* a value m of it is the function from the addresses of its non-zero bytes to
\* those bytes.  MemRead is m[a] and MemWrite is m[a] = b for an index a that
\* is inside the array; RangeOk is the bounds check of the index expression.
MemRead(m, a) == IF a \in DOMAIN m THEN m[a] ELSE 0
MemWrite(m, a, b) ==
    [x \in (IF b = 0 THEN DOMAIN m \ {a} ELSE DOMAIN m \cup {a}) |->
        IF x = a THEN b ELSE m[x]]

\* self.memory[a ..= a + n] and self.memory[a] (n = 0) are inside the array
RangeOk(a, n) == a >= 0 /\ a <= MEMORY_SIZE - 1 - n

from_le_bytes(b) == FromHalves(b[4] * 256 + b[3], b[2] * 256 + b[1])
u16_from_le_bytes(b) == b[2] * 256 + b[1]
to_le_bytes(v) == <<Lo16(v) % 256, Lo16(v) \div 256, Hi16(v) % 256, Hi16(v) \div 256>>

\* lines 392-393: the word at pc, or the panic of the slice index
fetch(s) ==
    IF AddOverflows(s.pc, 3) THEN [panic |-> "fetch", word |-> 0]
    ELSE IF ~RangeOk(s.pc, 3) THEN [panic |-> "fetch", word |-> 0]
    ELSE [panic |-> "none",
          word |-> from_le_bytes(<<MemRead(s.memory, s.pc), MemRead(s.memory, s.pc + 1),
                                   MemRead(s.memory, s.pc + 2),
                                   MemRead(s.memory, s.pc + 3)>>)]

jump_branch(instr) ==
    instr.op \in {"Jal", "Jalr", "Beq", "Bne", "Blt", "Bge", "Bltu", "Bgeu"}

Lui(s, args, chk) == Ok([s EXCEPT !.regs[args.rd] = args.imm])

Auipc(s, args, chk) ==
    IF chk /\ AddOverflows(args.imm, s.pc) THEN Panic(s, "overflow")
    ELSE Ok([s EXCEPT !.regs[args.rd] = WrapAdd(args.imm, s.pc)])

Jal(s, args, chk) ==
    IF chk /\ AddOverflows(s.pc, 4) THEN Panic(s, "overflow")
    ELSE LET s1 == [s EXCEPT !.regs[args.rd] = WrapAdd(s.pc, 4)] IN
         IF chk /\ AddOverflows(s1.pc, args.imm) THEN Panic(s1, "overflow")
         ELSE Ok([s1 EXCEPT !.pc = WrapAdd(s1.pc, args.imm)])

Jalr(s, args, chk) ==
    LET rs1 == s.regs[args.rs1] IN
    IF chk /\ AddOverflows(s.pc, 4) THEN Panic(s, "overflow")
    ELSE LET s1 == [s EXCEPT !.regs[args.rd] = WrapAdd(s.pc, 4)] IN
         IF chk /\ AddOverflows(rs1, args.imm) THEN Panic(s1, "overflow")
         ELSE Ok([s1 EXCEPT !.pc = BitAnd(WrapAdd(rs1, args.imm), -2)])

\* the common shape of the six branch arms; taken is the arm's comparison
Branch(s, args, chk, taken) ==
    LET d == IF taken THEN args.imm ELSE 4 IN
    IF chk /\ AddOverflows(s.pc, d) THEN Panic(s, "overflow")
    ELSE Ok([s EXCEPT !.pc = WrapAdd(s.pc, d)])

Beq(s, args, chk) == Branch(s, args, chk, s.regs[args.rs1] = s.regs[args.rs2])
Bne(s, args, chk) == Branch(s, args, chk, s.regs[args.rs1] # s.regs[args.rs2])
Blt(s, args, chk) == Branch(s, args, chk, s.regs[args.rs1] < s.regs[args.rs2])
Bge(s, args, chk) == Branch(s, args, chk, s.regs[args.rs1] >= s.regs[args.rs2])
Bltu(s, args, chk) == Branch(s, args, chk, ULt(s.regs[args.rs1], s.regs[args.rs2]))
Bgeu(s, args, chk) == Branch(s, args, chk, ~ULt(s.regs[args.rs1], s.regs[args.rs2]))

\* `(self.regs[args.rs1] + args.imm as u32) as usize` of the loads and stores
EffAddr(s, args) == WrapAdd(s.regs[args.rs1], args.imm)
EffAddrOverflows(s, args) == AddOverflows(s.regs[args.rs1], args.imm)

\* the address computation and the index expression of a load arm: the n + 1
\* bytes read, or the panic
LoadBytes(s, args, chk, n) ==
    LET address == EffAddr(s, args) IN
    IF chk /\ EffAddrOverflows(s, args) THEN [panic |-> "overflow", bytes |-> <<>>]
    ELSE IF ~RangeOk(address, n) THEN [panic |-> "index", bytes |-> <<>>]
    ELSE [panic |-> "none",
          bytes |-> [i \in 1..(n + 1) |-> MemRead(s.memory, address + i - 1)]]

\* `u8 as i32 as u32` and `u16 as i32 as u32`: the source type is unsigned, so
\* the widening cast zero-extends
u8_as_i32_as_u32(b) == b[1]
u16_as_i32_as_u32(b) == u16_from_le_bytes(b)
u8_as_u32(b) == b[1]
u16_as_u32(b) == u16_from_le_bytes(b)

Lb(s, args, chk) ==
    LET l == LoadBytes(s, args, chk, 0) IN
    IF l.panic # "none" THEN Panic(s, l.panic)
    ELSE Ok([s EXCEPT !.regs[args.rd] = u8_as_i32_as_u32(l.bytes)])
Lh(s, args, chk) ==
    LET l == LoadBytes(s, args, chk, 1) IN
    IF l.panic # "none" THEN Panic(s, l.panic)
    ELSE Ok([s EXCEPT !.regs[args.rd] = u16_as_i32_as_u32(l.bytes)])
Lw(s, args, chk) ==
    LET l == LoadBytes(s, args, chk, 3) IN
    IF l.panic # "none" THEN Panic(s, l.panic)
    ELSE Ok([s EXCEPT !.regs[args.rd] = from_le_bytes(l.bytes)])
Lbu(s, args, chk) ==
    LET l == LoadBytes(s, args, chk, 0) IN
    IF l.panic # "none" THEN Panic(s, l.panic)
    ELSE Ok([s EXCEPT !.regs[args.rd] = u8_as_u32(l.bytes)])
Lhu(s, args, chk) ==
    LET l == LoadBytes(s, args, chk, 1) IN
    IF l.panic # "none" THEN Panic(s, l.panic)
    ELSE Ok([s EXCEPT !.regs[args.rd] = u16_as_u32(l.bytes)])

\* the byte writes of a store, one after the other: the write of byte k
\* panics when address + k - 1 is outside the array, after bytes 1..k-1
RECURSIVE StoreBytes(_, _, _, _, _)
StoreBytes(s, address, bytes, k, n) ==
    IF k > n THEN Ok(s)
    ELSE IF ~RangeOk(address, k - 1) THEN Panic(s, "index")
    ELSE StoreBytes([s EXCEPT !.memory = MemWrite(@, address + k - 1, bytes[k])],
                    address, bytes, k + 1, n)

Store(s, args, chk, n) ==
    LET address == EffAddr(s, args)
        bytes == to_le_bytes(s.regs[args.rs2])
    IN  IF chk /\ EffAddrOverflows(s, args) THEN Panic(s, "overflow")
        ELSE StoreBytes(s, address, bytes, 1, n)

\* a store of the word with its bytes in big-endian order
Sw_BigEndian(s, args, chk) ==
    LET address == EffAddr(s, args)
        le == to_le_bytes(s.regs[args.rs2])
        bytes == <<le[4], le[3], le[2], le[1]>>
    IN  IF chk /\ EffAddrOverflows(s, args) THEN Panic(s, "overflow")
        ELSE StoreBytes(s, address, bytes, 1, 4)

Sb(s, args, chk) == Store(s, args, chk, 1)
\* Sh that writes all four bytes of the register
Sh_WritesWord(s, args, chk) == Store(s, args, chk, 4)
Sh(s, args, chk) == Store(s, args, chk, 2)
Sw(s, args, chk) == Store(s, args, chk, 4)

\* lines 506-530: the nine immediate ALU arms are empty
AluImm(s, args, chk) == Ok(s)

Add(s, args, chk) ==
    IF chk /\ AddOverflows(s.regs[args.rs1], s.regs[args.rs2]) THEN Panic(s, "overflow")
    ELSE Ok([s EXCEPT !.regs[args.rd] = WrapAdd(s.regs[args.rs1], s.regs[args.rs2])])
Sub(s, args, chk) ==
    IF chk /\ SubOverflows(s.regs[args.rs1], s.regs[args.rs2]) THEN Panic(s, "overflow")
    ELSE Ok([s EXCEPT !.regs[args.rd] = WrapSub(s.regs[args.rs1], s.regs[args.rs2])])
Sll(s, args, chk) ==
    Ok([s EXCEPT !.regs[args.rd] = Shl(s.regs[args.rs1], BitAnd(s.regs[args.rs2], 31))])
Slt(s, args, chk) ==
    Ok([s EXCEPT !.regs[args.rd] = IF s.regs[args.rs1] < s.regs[args.rs2] THEN 1 ELSE 0])
Sltu(s, args, chk) ==
    Ok([s EXCEPT !.regs[args.rd] = IF ULt(s.regs[args.rs1], s.regs[args.rs2]) THEN 1 ELSE 0])
Xor(s, args, chk) ==
    Ok([s EXCEPT !.regs[args.rd] = BitXor(s.regs[args.rs1], s.regs[args.rs2])])
Srl(s, args, chk) ==
    Ok([s EXCEPT !.regs[args.rd] = Shr(s.regs[args.rs1], BitAnd(s.regs[args.rs2], 31))])
Sra(s, args, chk) ==
    Ok([s EXCEPT !.regs[args.rd] = Sar(s.regs[args.rs1], BitAnd(s.regs[args.rs2], 31))])
Or(s, args, chk) ==
    Ok([s EXCEPT !.regs[args.rd] = BitOr(s.regs[args.rs1], s.regs[args.rs2])])
And(s, args, chk) ==
    Ok([s EXCEPT !.regs[args.rd] = BitAnd(s.regs[args.rs1], s.regs[args.rs2])])

Fence(s, args, chk) == Ok(s)
Todo(s, args, chk) == Panic(s, "todo")

Ecall(s, args, chk) == Raise([s EXCEPT !.mepc = s.pc, !.mcause = "Mcall"])
Ebreak(s, args, chk) == Raise([s EXCEPT !.mepc = s.pc, !.mcause = "Breakpoint"])

\* Csrrw that reads regs[rs1] after it has written regs[rd]
Csrrw_RdFirst(s, args, chk) ==
    LET csr == get_csr(args.csr) IN
    IF csr # "None"
    THEN LET s1 == [s EXCEPT !.regs[args.rd] = get_csr_value(s, csr)]
         IN  Ok(set_csr_value(s1, csr, s1.regs[args.rs1]))
    ELSE Raise([s EXCEPT !.mepc = s.pc, !.mcause = "IllegalInstruction"])

Csrrw(s, args, chk) ==
    LET csr == get_csr(args.csr) IN
    IF csr # "None"
    THEN LET rs1 == s.regs[args.rs1]
             s1 == [s EXCEPT !.regs[args.rd] = get_csr_value(s, csr)]
         IN  Ok(set_csr_value(s1, csr, rs1))
    ELSE Raise([s EXCEPT !.mepc = s.pc, !.mcause = "IllegalInstruction"])

\* lines 589-603: the other five CSR arms are empty
CsrOther(s, args, chk) == Ok(s)

\* lines 412-604: the match on the decoded instruction
run(s, instr, chk) ==
    LET op == instr.op
        args == instr.args
    IN
    CASE op = "Lui" -> Lui(s, args, chk)
      [] op = "Auipc" -> Auipc(s, args, chk)
      [] op = "Jal" -> Jal(s, args, chk)
      [] op = "Jalr" -> Jalr(s, args, chk)
      [] op = "Beq" -> Beq(s, args, chk)
      [] op = "Bne" -> Bne(s, args, chk)
      [] op = "Blt" -> Blt(s, args, chk)
      [] op = "Bge" -> Bge(s, args, chk)
      [] op = "Bltu" -> Bltu(s, args, chk)
      [] op = "Bgeu" -> Bgeu(s, args, chk)
      [] op = "Lb" -> Lb(s, args, chk)
      [] op = "Lh" -> Lh(s, args, chk)
      [] op = "Lw" -> Lw(s, args, chk)
      [] op = "Lbu" -> Lbu(s, args, chk)
      [] op = "Lhu" -> Lhu(s, args, chk)
      [] op = "Sb" -> Sb(s, args, chk)
      [] op = "Sh" -> Sh(s, args, chk)
      [] op = "Sw" -> Sw(s, args, chk)
      [] op \in {"Addi", "Slti", "Sltiu", "Xori", "Ori", "Andi",
                 "Slli", "Srli", "Srai"} -> AluImm(s, args, chk)
      [] op = "Add" -> Add(s, args, chk)
      [] op = "Sub" -> Sub(s, args, chk)
      [] op = "Sll" -> Sll(s, args, chk)
      [] op = "Slt" -> Slt(s, args, chk)
      [] op = "Sltu" -> Sltu(s, args, chk)
      [] op = "Xor" -> Xor(s, args, chk)
      [] op = "Srl" -> Srl(s, args, chk)
      [] op = "Sra" -> Sra(s, args, chk)
      [] op = "Or" -> Or(s, args, chk)
      [] op = "And" -> And(s, args, chk)
      [] op = "Fence" -> Fence(s, args, chk)
      [] op \in {"FenceTso", "Pause", "Mret", "Wfi"} -> Todo(s, args, chk)
      [] op = "Ecall" -> Ecall(s, args, chk)
      [] op = "Ebreak" -> Ebreak(s, args, chk)
      [] op = "Csrrw" -> Csrrw(s, args, chk)
      [] op \in {"Csrrs", "Csrrc", "Csrrwi", "Csrrsi", "Csrrci"} -> CsrOther(s, args, chk)

\* the next-pc match without the write of regs[0] behind it
commit_NoZero(r, jb, chk) ==
    IF r.exception
    THEN [s |-> [r.s EXCEPT !.pc = r.s.mtvec], panic |-> "todo", exception |-> TRUE]
    ELSE IF ~jb
    THEN IF chk /\ AddOverflows(r.s.pc, 4) THEN Panic(r.s, "overflow")
         ELSE Ok([r.s EXCEPT !.pc = WrapAdd(r.s.pc, 4)])
    ELSE Ok(r.s)

\* lines 605-615: the next-pc match and the write of regs[0]; r is the outcome
\* of an arm that did not panic
commit(r, jb, chk) ==
    IF r.exception
    THEN [s |-> [r.s EXCEPT !.pc = r.s.mtvec], panic |-> "todo", exception |-> TRUE]
    ELSE IF ~jb
    THEN IF chk /\ AddOverflows(r.s.pc, 4) THEN Panic(r.s, "overflow")
         ELSE Ok([r.s EXCEPT !.pc = WrapAdd(r.s.pc, 4), !.regs[0] = 0])
    ELSE Ok([r.s EXCEPT !.regs[0] = 0])

\* lines 391-619
execute(s, chk) ==
    LET f == fetch(s) IN
    IF f.panic # "none" THEN Panic(s, f.panic)
    ELSE LET instr == decode(f.word) IN
         IF instr.op = "IllegalInstruction" THEN Panic(s, "todo")
         ELSE LET r == run(s, instr, chk) IN
              IF r.panic # "none" THEN r ELSE commit(r, jump_branch(instr), chk)

(***************************************************************************)
(* The test binaries main() runs.  A test is the words of its executable   *)
(* section and its `pass` and `fail` symbols.  The texts are a set-up      *)
(* sequence followed by a body: one word of Words, or a store followed by  *)
(* a load.                                                                 *)
(***************************************************************************)
Words == {
    115,            \* ecall
    1048691,        \* ebreak
    807403635,      \* mret
    273678451,      \* wfi
    267386895,      \* fence iorw,iorw
    -2094006257,    \* fence.tso
    16777231,       \* pause
    0,              \* 0x00000000, no opcode
    -1,             \* 0xFFFFFFFF, no opcode
    37223,          \* jalr with funct3 = 1
    37235,          \* csrrw x2, 0x000, x1 (unmapped)
    872452467,      \* csrrw x2, mscratch, x1
    805343603,      \* csrrw x2, mstatus, x1
    875597939,      \* csrrw x0, mtval, x1
    872456563,      \* csrrs x2, mscratch, x1
    41331,          \* csrrs x2, 0x000, x1 (unmapped)
    4151,           \* lui x0, 0x1
    305418551,      \* lui x2, 0x12345
    4375,           \* auipc x2, 0x1
    8388719,        \* jal x0, +8
    8388975,        \* jal x2, +8
    -2101137,       \* jal x0, -4
    6291559,        \* jalr x0, 6(x0)
    33127,          \* jalr x2, 0(x1)
    9470183,        \* jalr x1, 9(x1)
    1049699,        \* beq x0, x1, +8
    1053795,        \* bne x0, x1, +8
    50275,          \* blt x1, x0, +8
    54371,          \* bge x1, x0, +8
    58467,          \* bltu x1, x0, +8
    62563,          \* bgeu x1, x0, +8
    -33550621,      \* beq x0, x0, -4
    259,            \* lb x2, 0(x0)
    16643,          \* lbu x2, 0(x0)
    4194563,        \* lb x2, 4(x0)
    4355,           \* lh x2, 0(x0)
    20739,          \* lhu x2, 0(x0)
    2101507,        \* lh x2, 2(x0)
    8451,           \* lw x2, 0(x0)
    8195,           \* lw x0, 0(x0)
    2105603,        \* lw x2, 2(x0)
    1052931,        \* lh x2, 1(x0)
    41219,          \* lw x2, 0(x1)
    -2055933,       \* lw x2, -2(x1)
    -995069,        \* lhu x2, -1(x1)
    49411,          \* lbu x2, 0(x1)
    1050659,        \* sb x1, 16(x0)
    1054755,        \* sh x1, 16(x0)
    1058851,        \* sw x1, 16(x0)
    1059107,        \* sw x1, 18(x0)
    1054883,        \* sh x1, 17(x0)
    1089571,        \* sw x1, 0(x1)
    -32461021,      \* sw x1, -2(x1)
    -32464989,      \* sh x1, -1(x1)
    1081379,        \* sb x1, 0(x1)
    5275923,        \* addi x2, x1, 5
    1077989651,     \* srai x2, x1, 4
    37785875,       \* slli with funct7 = 1
    1081651,        \* add x2, x1, x1
    3178547,        \* add x0, x1, x3
    1074790707,     \* sub x2, x0, x1
    3182899,        \* sll x2, x1, x3
    41267,          \* slt x2, x1, x0
    45363,          \* sltu x2, x1, x0
    3195187,        \* xor x2, x1, x3
    3199283,        \* srl x2, x1, x3
    1076941107,     \* sra x2, x1, x3
    3203379,        \* or x2, x1, x3
    3207475         \* and x2, x1, x3
}

StoreWords == {
    1050659,        \* sb x1, 16(x0)
    1054755,        \* sh x1, 16(x0)
    1058851,        \* sw x1, 16(x0)
    1059107         \* sw x1, 18(x0)
}

LoadWords == {
    16785667,       \* lw x2, 16(x0)
    16781571,       \* lh x2, 16(x0)
    19939587,       \* lbu x2, 19(x0)
    16777475,       \* lb x2, 16(x0)
    18895107        \* lhu x2, 18(x0)
}

\* x1 = 0;  x1 = 0x1000 (MEMORY_SIZE);  x3 = 0xDEADB000 and x1 = 0xDEADB1B7;
\* x1 = 0x1000 and mtvec = 0x1000, mtval = 0x1000
Setups == {
    <<>>,
    <<4279>>,                            \* lui x1, 0x1
    <<-559042121, 8323>>,                \* lui x3, 0xDEADB; lw x1, 0(x0)
    <<4279, 810586227, 875597939>>       \* lui x1, 0x1; csrrw x0, mtvec, x1; csrrw x0, mtval, x1
}

Bodies == {<<w>> : w \in Words} \cup {<<st, ld>> : st \in StoreWords, ld \in LoadWords}

\* jalr x0, 6(x0) followed by two words whose bytes 6..9 are lui x2, 0x12345
\* (0x00600067, 0x51370000, 0x00001234)
StraddledText == <<6291559, 1362558976, 4660>>

Texts == {setup \o body : setup \in Setups, body \in Bodies} \cup {StraddledText}

\* `pass` is one word behind the end of the text and `fail` the word after it;
\* one binary has neither symbol
Tests ==
    {[text |-> t, pass |-> 4 * Len(t) + 4, fail |-> 4 * Len(t) + 8] : t \in Texts}
    \cup {[text |-> <<4279>>, pass |-> 0, fail |-> 0]}

\* the bytes of a text, little-endian words
TextByte(text, i) == to_le_bytes(text[(i \div 4) + 1])[(i % 4) + 1]

\* line 659, `memory[..text.len()].copy_from_slice(text)`
copy_from_slice(m, text) ==
    LET n == 4 * Len(text) IN
    [x \in {i \in 0..(n - 1) : TextByte(text, i) # 0}
            \cup {a \in DOMAIN m : a >= n} |->
        IF x < n THEN TextByte(text, x) ELSE m[x]]

\* the number of test binaries main() runs
MaxTests == 1

(***************************************************************************)
(* State: the fields of CoreState, the build's overflow-checks setting,    *)
(* the position of main() (`at`), its locals pass_pc and fail_pc, the      *)
(* number of tests taken from the list, and a record of the last step.     *)
(* decode_arg and decode_ret are the argument and the result of a call of  *)
(* CoreState::decode on its own.                                           *)
(***************************************************************************)
VARIABLES pc, regs, memory, mie, mpie, mtvec, mscratch, mepc, mcause, mtval,
          overflow_checks, at, pass_pc, fail_pc, ntests, last,
          decode_arg, decode_ret

vars == <<pc, regs, memory, mie, mpie, mtvec, mscratch, mepc, mcause, mtval,
          overflow_checks, at, pass_pc, fail_pc, ntests, last,
          decode_arg, decode_ret>>

core_state ==
    [pc |-> pc, regs |-> regs, memory |-> memory, mie |-> mie, mpie |-> mpie,
     mtvec |-> mtvec, mscratch |-> mscratch, mepc |-> mepc, mcause |-> mcause,
     mtval |-> mtval]

SetCore(s) ==
    /\ pc' = s.pc
    /\ regs' = s.regs
    /\ memory' = s.memory
    /\ mie' = s.mie
    /\ mpie' = s.mpie
    /\ mtvec' = s.mtvec
    /\ mscratch' = s.mscratch
    /\ mepc' = s.mepc
    /\ mcause' = s.mcause
    /\ mtval' = s.mtval

\* what `last` keeps of the execute step before
Brief(l) == [op |-> l.op, word |-> l.word, addr |-> l.addr, val |-> l.val,
             panic |-> l.panic]

NotDecoded == [op |-> "none", args |-> <<>>]

NoStep ==
    [op |-> "none", pc |-> 0, fetched |-> FALSE, word |-> 0, panic |-> "none",
     exception |-> FALSE, addr |-> 0, val |-> 0, mtvec |-> 0,
     mie |-> FALSE, mpie |-> FALSE,
     prev |-> [op |-> "none", word |-> 0, addr |-> 0, val |-> 0, panic |-> "none"]]

\* main, lines 633-644
Init ==
    /\ pc = 0
    /\ regs = [i \in 0..31 |-> 0]
    /\ memory = [i \in {} |-> 0]
    /\ mie = FALSE
    /\ mpie = FALSE
    /\ mtvec = 0
    /\ mscratch = 0
    /\ mepc = 0
    /\ mcause = "HardwareError"
    /\ mtval = 0
    /\ overflow_checks \in BOOLEAN
    /\ at = "tests"
    /\ pass_pc = 0
    /\ fail_pc = 0
    /\ ntests = 0
    /\ last = NoStep
    /\ decode_arg = 0
    /\ decode_ret = NotDecoded

\* main, lines 648-681: the next test is read, its text is copied to the start
\* of memory, and it is skipped when a symbol is missing
LoadTest(t) ==
    /\ at = "tests"
    /\ ntests < MaxTests
    /\ ntests' = ntests + 1
    /\ memory' = copy_from_slice(memory, t.text)
    /\ pass_pc' = t.pass
    /\ fail_pc' = t.fail
    /\ at' = IF t.pass = 0 \/ t.fail = 0 THEN "tests" ELSE "reset"
    /\ last' = [NoStep EXCEPT !.op = "load", !.pc = pc]
    /\ UNCHANGED <<pc, regs, mie, mpie, mtvec, mscratch, mepc, mcause, mtval,
                   overflow_checks, decode_arg, decode_ret>>

\* reset that also clears the register file
reset_ClearsRegs(s) ==
    [s EXCEPT !.pc = 0, !.mie = FALSE, !.mpie = FALSE, !.regs = [i \in 0..31 |-> 0]]

\* CoreState::reset, called at line 683
reset(s) == [s EXCEPT !.pc = 0, !.mie = FALSE, !.mpie = FALSE]

Reset ==
    /\ at = "reset"
    /\ SetCore(reset(core_state))
    /\ at' = "loop"
    /\ last' = [NoStep EXCEPT !.op = "reset", !.pc = pc, !.mie = mie, !.mpie = mpie]
    /\ UNCHANGED <<overflow_checks, pass_pc, fail_pc, ntests, decode_arg, decode_ret>>

\* the fields of an executed instruction the record of a step keeps
StepAddr(s, instr) ==
    IF instr.op \in {"Lb", "Lh", "Lw", "Lbu", "Lhu", "Sb", "Sh", "Sw"}
    THEN EffAddr(s, instr.args) ELSE 0
StepVal(s, instr) ==
    IF instr.op \in {"Sb", "Sh", "Sw"} THEN s.regs[instr.args.rs2] ELSE 0

\* main, lines 685-693: one pass of the loop; a panic ends the process
Execute ==
    /\ at = "loop"
    /\ LET s == core_state
           r == execute(s, overflow_checks)
           f == fetch(s)
           instr == IF f.panic = "none" THEN decode(f.word) ELSE IllegalInstruction
       IN  /\ SetCore(r.s)
           /\ at' = IF r.panic # "none" THEN "aborted"
                    ELSE IF r.s.pc = pass_pc \/ r.s.pc = fail_pc THEN "tests"
                    ELSE "loop"
           /\ last' = [op |-> "execute", pc |-> pc, fetched |-> f.panic = "none",
                       word |-> f.word, panic |-> r.panic,
                       exception |-> r.exception,
                       addr |-> StepAddr(s, instr), val |-> StepVal(s, instr),
                       mtvec |-> mtvec, mie |-> mie, mpie |-> mpie,
                       prev |-> Brief(last)]
    /\ UNCHANGED <<overflow_checks, pass_pc, fail_pc, ntests, decode_arg, decode_ret>>

Next ==
    \/ \E t \in Tests : LoadTest(t)
    \/ Reset
    \/ Execute

Spec == Init /\ [][Next]_vars

(***************************************************************************)
(* A suite of test binaries run one after the other on the same CoreState, *)
(* as main() runs the files of its list: the state a test leaves is the    *)
(* state the next test is loaded over and reset in.  Each program ends at  *)
(* its `pass` symbol, the address behind its last word.                    *)
(***************************************************************************)
\* mstatus.MIE and MPIE and the other read-write CSRs are set from x1 =
\* 0x004000EF, the program's first word
ModeProgram == <<
    4194543,        \* jal x1, +4
    8323,           \* lw x1, 0(x0)
    805343347,      \* csrrw x0, mstatus, x1
    810586227,      \* csrrw x0, mtvec, x1
    872452211,      \* csrrw x0, mscratch, x1
    873500787,      \* csrrw x0, mepc, x1
    875597939       \* csrrw x0, mtval, x1
>>

\* CSRRW on the read-write CSRs, with rd = rs1, rd # rs1 and rd = 0
SwapProgram == <<
    4279,           \* lui x1, 0x1
    872452211,      \* csrrw x0, mscratch, x1
    8375,           \* lui x1, 0x2
    872452339,      \* csrrw x1, mscratch, x1
    810586483,      \* csrrw x2, mtvec, x1
    873500915,      \* csrrw x1, mepc, x1
    875597939,      \* csrrw x0, mtval, x1
    875565427       \* csrrw x2, mtval, x0
>>

\* CSRRW of x1 = 0x004000EF to each read-only CSR, then reads of them
ReadOnlyProgram == <<
    4194543,        \* jal x1, +4
    8323,           \* lw x1, 0(x0)
    -250572429,     \* csrrw x2, mvendorid, x1
    -249523853,     \* csrrw x2, marchid, x1
    -248475277,     \* csrrw x2, mimpid, x1
    -247426701,     \* csrrw x2, mhartid, x1
    -246378125,     \* csrrw x2, mconfigptr, x1
    809537907,      \* csrrw x2, mie, x1
    876646771,      \* csrrw x2, mip, x1
    806392179,      \* csrrw x2, misa, x1
    809505267,      \* csrrw x3, mie, x0
    806359539,      \* csrrw x3, misa, x0
    -247459341      \* csrrw x3, mhartid, x0
>>

\* the immediate ALU instructions
AluImmProgram == <<
    5243027,        \* addi x1, x0, 5
    7373075,        \* addi x2, x1, 7
    -3913,          \* lui x1, 0xFFFFF
    41235,          \* slti x2, x1, 0
    -1003245,       \* sltiu x2, x1, -1
    -999149,        \* xori x2, x1, -1
    5300499,        \* ori x2, x1, 5
    -986861,        \* andi x2, x1, -1
    1085715,        \* slli x2, x1, 1
    4247827,        \* srli x2, x1, 4
    1077989651      \* srai x2, x1, 4
>>

\* mscratch = 0x004000EF, then the set, clear and immediate forms
CsrSetClearProgram == <<
    4194543,        \* jal x1, +4
    8323,           \* lw x1, 0(x0)
    872452211,      \* csrrw x0, mscratch, x1
    8375,           \* lui x1, 0x2
    872456563,      \* csrrs x2, mscratch, x1
    872460659,      \* csrrc x2, mscratch, x1
    872599923,      \* csrrwi x2, mscratch, 5
    872964467,      \* csrrsi x2, mscratch, 16
    872477043       \* csrrci x2, mscratch, 1
>>

\* each CSR instruction with an address Csr::get_csr does not map
UnmappedProgram == <<
    305418551,      \* lui x2, 0x12345
    41331,          \* csrrs x2, 0x000, x1
    2080420211,     \* csrrc x2, 0x7C0, x1
    -994957,        \* csrrwi x2, 0xFFF, 1
    877715827,      \* csrrsi x2, 0x345, 1
    -251596429,     \* csrrci x2, 0xF10, 1
    2080412019      \* csrrw x2, 0x7C0, x1
>>

\* 0 -> 8 -> 4 -> 12
JalProgram == <<
    8388719,        \* jal x0, +8
    8388975,        \* jal x2, +8
    -2100881        \* jal x2, -4
>>

\* 0 -> 8 -> 12 -> 4 -> 16, the last jump with rd = rs1 and an odd sum
JalrProgram == <<
    8388847,        \* jal x1, +8
    12583023,       \* jal x0, +12
    4194543,        \* jal x1, +4
    -7307033        \* jalr x1, -7(x1)
>>

\* 0 -> 4 -> 12 -> 16 -> 8 -> 20 -> 24 -> 28 with x1 = 0xFFFFF000
BranchProgram == <<
    -3913,          \* lui x1, 0xFFFFF
    50275,          \* blt x1, x0, +8
    63075,          \* bgeu x1, x0, +12
    58467,          \* bltu x1, x0, +8
    -32482077,      \* bge x0, x1, -8
    -32465181,      \* bne x1, x1, -4
    1081955         \* beq x1, x1, +4
>>

SuitePrograms ==
    {ModeProgram, SwapProgram, ReadOnlyProgram, AluImmProgram, CsrSetClearProgram,
     UnmappedProgram, JalProgram, JalrProgram, BranchProgram}

SuiteTests ==
    {[text |-> t, pass |-> 4 * Len(t), fail |-> 4 * Len(t) + 4] : t \in SuitePrograms}

\* the number of binaries of the suite main() runs
MaxSuite == 2

\* main, lines 648-681, for a binary of the suite
LoadSuiteTest(t) ==
    /\ at = "tests"
    /\ ntests < MaxSuite
    /\ ntests' = ntests + 1
    /\ memory' = copy_from_slice(memory, t.text)
    /\ pass_pc' = t.pass
    /\ fail_pc' = t.fail
    /\ at' = IF t.pass = 0 \/ t.fail = 0 THEN "tests" ELSE "reset"
    /\ last' = [NoStep EXCEPT !.op = "load", !.pc = pc]
    /\ UNCHANGED <<pc, regs, mie, mpie, mtvec, mscratch, mepc, mcause, mtval,
                   overflow_checks, decode_arg, decode_ret>>

NextSuite ==
    \/ \E t \in SuiteTests : LoadSuiteTest(t)
    \/ Reset
    \/ Execute

SpecSuite == Init /\ [][NextSuite]_vars

(***************************************************************************)
(* CoreState::decode called on its own: the word is drawn from the words   *)
(* made of the field values below, every opcode and funct3 among them.     *)
(***************************************************************************)
DecodeOpcodes == 0..127
DecodeFunct3 == 0..7
DecodeFunct7 == {0, 1, 8, 24, 32, 127}
DecodeRs2 == {0, 1, 2, 5}
DecodeRs1 == {0, 1}
DecodeRd == {0, 1}

\* the word with the given fields
Word(opcode, funct3, funct7, rs2, rs1, rd) ==
    Shl(funct7, 25) + rs2 * 1048576 + rs1 * 32768 + funct3 * 4096 + rd * 128 + opcode

InitDecode ==
    /\ pc = 0
    /\ regs = [i \in 0..31 |-> 0]
    /\ memory = [i \in {} |-> 0]
    /\ mie = FALSE
    /\ mpie = FALSE
    /\ mtvec = 0
    /\ mscratch = 0
    /\ mepc = 0
    /\ mcause = "HardwareError"
    /\ mtval = 0
    /\ overflow_checks \in BOOLEAN
    /\ at = "decode"
    /\ pass_pc = 0
    /\ fail_pc = 0
    /\ ntests = 0
    /\ last = NoStep
    /\ \E opcode \in DecodeOpcodes, funct3 \in DecodeFunct3, funct7 \in DecodeFunct7,
          rs2 \in DecodeRs2, rs1 \in DecodeRs1, rd \in DecodeRd :
            decode_arg = Word(opcode, funct3, funct7, rs2, rs1, rd)
    /\ decode_ret = NotDecoded

Decode ==
    /\ at = "decode"
    /\ decode_ret' = decode(decode_arg)
    /\ at' = "decoded"
    /\ UNCHANGED <<pc, regs, memory, mie, mpie, mtvec, mscratch, mepc, mcause, mtval,
                   overflow_checks, pass_pc, fail_pc, ntests, last, decode_arg>>

NextDecode == Decode

SpecDecode == InitDecode /\ [][NextDecode]_vars

(***************************************************************************)
(* CoreState::decode called on words of every instruction format, with     *)
(* field values that set and clear each piece of the immediates.           *)
(***************************************************************************)
ImmOpcodes == {3, 19, 23, 35, 55, 99, 103, 111, 115}
ImmFunct3 == 0..7
ImmFunct7 == {0, 1, 32, 63, 64, 127}
ImmRs2 == {0, 1, 21, 31}
ImmRs1 == {0, 1, 31}
ImmRd == {0, 1, 30, 31}

InitImm ==
    /\ pc = 0
    /\ regs = [i \in 0..31 |-> 0]
    /\ memory = [i \in {} |-> 0]
    /\ mie = FALSE
    /\ mpie = FALSE
    /\ mtvec = 0
    /\ mscratch = 0
    /\ mepc = 0
    /\ mcause = "HardwareError"
    /\ mtval = 0
    /\ overflow_checks \in BOOLEAN
    /\ at = "decode"
    /\ pass_pc = 0
    /\ fail_pc = 0
    /\ ntests = 0
    /\ last = NoStep
    /\ \E opcode \in ImmOpcodes, funct3 \in ImmFunct3, funct7 \in ImmFunct7,
          rs2 \in ImmRs2, rs1 \in ImmRs1, rd \in ImmRd :
            decode_arg = Word(opcode, funct3, funct7, rs2, rs1, rd)
    /\ decode_ret = NotDecoded

SpecImm == InitImm /\ [][NextDecode]_vars

TypeOK ==
    /\ regs \in [0..31 -> Int]
    /\ DOMAIN memory \subseteq 0..(MEMORY_SIZE - 1)
    /\ \A i \in DOMAIN memory : memory[i] \in 1..255
    /\ mcause \in Cause
    /\ at \in {"tests", "reset", "loop", "aborted", "decode", "decoded"}

(***************************************************************************)
(* Properties.  In an action formula the unprimed variables are the state  *)
(* before a call of execute (at = "loop") and the primed ones the state    *)
(* it leaves; in a state formula `last` describes the call that led here.  *)
(***************************************************************************)
CurFetch == fetch(core_state)
CurInstr == IF CurFetch.panic = "none" THEN decode(CurFetch.word) ELSE IllegalInstruction
ExecStep == at = "loop"
LastInstr == IF last.fetched THEN decode(last.word) ELSE IllegalInstruction
LastExecuted == last.op = "execute" /\ last.fetched
LastCompleted == LastExecuted /\ last.panic = "none"

BranchOps == {"Beq", "Bne", "Blt", "Bge", "Bltu", "Bgeu"}
LoadOps == {"Lb", "Lh", "Lw", "Lbu", "Lhu"}
StoreOps == {"Sb", "Sh", "Sw"}
CsrOps == {"Csrrw", "Csrrs", "Csrrc", "Csrrwi", "Csrrsi", "Csrrci"}

\* the width in bytes of a load or store
Width(op) == CASE op \in {"Lb", "Lbu", "Sb"} -> 1
               [] op \in {"Lh", "Lhu", "Sh"} -> 2
               [] op \in {"Lw", "Sw"} -> 4

\* C1: a call of execute on a word fetched from an in-bounds pc returns; the
\* process is never aborted by it.
C1_StepNeverAborts == LastExecuted => last.panic = "none"

\* C2: after every completed step regs[0] is 0, also when the instruction
\* names register 0 as its destination, and it is 0 where the trap path of a
\* step ends.
C2_RegisterZero ==
    /\ at # "aborted" => regs[0] = 0
    /\ (last.op = "execute" /\ (last.panic = "none" \/ last.exception)) => regs[0] = 0

\* a completed step whose instruction wrote a non-zero value to register 0
C2_Witness ==
    /\ LastCompleted
    /\ LastInstr.op = "Lui"
    /\ LastInstr.args.rd = 0
    /\ LastInstr.args.imm # 0
    /\ regs[0] = 0

\* C3: the pc after a step is mtvec when the instruction raised an exception,
\* else the target when it is a jump or a taken branch, else the old pc + 4.
C3_Raises ==
    \/ CurInstr.op \in {"Ecall", "Ebreak"}
    \/ CurInstr.op \in CsrOps /\ get_csr(CurInstr.args.csr) = "None"
C3_Taken ==
    LET a == regs[CurInstr.args.rs1]
        b == regs[CurInstr.args.rs2]
    IN  CASE CurInstr.op = "Beq" -> a = b
          [] CurInstr.op = "Bne" -> a # b
          [] CurInstr.op = "Blt" -> a < b
          [] CurInstr.op = "Bge" -> a >= b
          [] CurInstr.op = "Bltu" -> ULt(a, b)
          [] CurInstr.op = "Bgeu" -> ~ULt(a, b)
          [] OTHER -> FALSE
C3_Expected ==
    IF C3_Raises THEN mtvec
    ELSE IF CurInstr.op = "Jal" THEN WrapAdd(pc, CurInstr.args.imm)
    ELSE IF CurInstr.op = "Jalr"
    THEN BitAnd(WrapAdd(regs[CurInstr.args.rs1], CurInstr.args.imm), -2)
    ELSE IF CurInstr.op \in BranchOps /\ C3_Taken THEN WrapAdd(pc, CurInstr.args.imm)
    ELSE WrapAdd(pc, 4)
C3_NextPcPolicy ==
    [][(ExecStep /\ CurInstr.op # "IllegalInstruction")
        => IF C3_Raises THEN at' # "aborted" /\ pc' = C3_Expected
           ELSE at' # "aborted" => pc' = C3_Expected]_vars

\* C4: ECALL at X with mtvec = V completes the step with mepc = X, mcause = 11
\* and pc = V; EBREAK likewise with mcause = 3.
C4_EcallEbreakTrap ==
    (LastExecuted /\ LastInstr.op \in {"Ecall", "Ebreak"})
    => /\ last.panic = "none"
       /\ mepc = last.pc
       /\ get_cause_value(mcause) = (IF LastInstr.op = "Ecall" THEN 11 ELSE 3)
       /\ pc = last.mtvec

\* C5: a word that does not decode raises IllegalInstruction: mcause = 2,
\* mepc = its pc, mtval = the word, pc = mtvec, registers and memory are
\* unchanged and the process is not aborted.
C5_IllegalInstructionTrap ==
    [][(ExecStep /\ CurFetch.panic = "none" /\ CurInstr.op = "IllegalInstruction")
        => /\ at' # "aborted"
           /\ get_cause_value(mcause') = 2
           /\ mepc' = pc
           /\ mtval' = CurFetch.word
           /\ pc' = mtvec
           /\ regs' = regs
           /\ memory' = memory]_vars

\* C6: a step started with pc not a multiple of 4 raises
\* InstructionAddressMisaligned, one started with pc..pc+3 not inside memory
\* raises InstructionAccessFault; both end with pc = mtvec.
C6_FetchChecked ==
    [][ExecStep
        => /\ (pc % 4 # 0)
                => /\ at' # "aborted"
                   /\ mcause' = "InstructionAddressMisaligned"
                   /\ pc' = mtvec
           /\ (pc % 4 = 0 /\ ~RangeOk(pc, 3))
                => /\ at' # "aborted"
                   /\ mcause' = "InstructionAccessFault"
                   /\ pc' = mtvec]_vars

\* C7: a load or store whose effective address is misaligned for its width or
\* not wholly inside memory raises the load or store misaligned / access-fault
\* cause; the step ends with mepc = pc of the instruction and pc = mtvec, and
\* the destination register is not written.
C7_Misaligned == EffAddr(core_state, CurInstr.args) % Width(CurInstr.op) # 0
C7_Outside == ~RangeOk(EffAddr(core_state, CurInstr.args), Width(CurInstr.op) - 1)
C7_MemoryFaults ==
    [][(ExecStep /\ CurInstr.op \in LoadOps \cup StoreOps
            /\ (C7_Misaligned \/ C7_Outside))
        => /\ at' # "aborted"
           /\ mcause' \in (IF CurInstr.op \in LoadOps
                           THEN {"LoadAddressMisaligned", "LoadAccessFault"}
                           ELSE {"StoreAmoAddressMisaligned", "StoreAmoAccessFault"})
           /\ ~C7_Outside => mcause' \in {"LoadAddressMisaligned",
                                          "StoreAmoAddressMisaligned"}
           /\ ~C7_Misaligned => mcause' \in {"LoadAccessFault",
                                             "StoreAmoAccessFault"}
           /\ mepc' = pc
           /\ pc' = mtvec
           /\ CurInstr.op \in LoadOps
                => regs'[CurInstr.args.rd] = regs[CurInstr.args.rd]]_vars

\* C8: an SH or SW whose byte range starts inside memory and ends outside it
\* modifies no memory byte.
C8_StoreAtomic ==
    [][(ExecStep /\ CurInstr.op \in {"Sh", "Sw"}
            /\ RangeOk(EffAddr(core_state, CurInstr.args), 0)
            /\ ~RangeOk(EffAddr(core_state, CurInstr.args), Width(CurInstr.op) - 1))
        => memory' = memory]_vars

\* C9: a completed SW of v to an in-bounds 4-aligned address A changes the
\* bytes A..A+3 to v's bytes, low byte first, and no other byte; a completed
\* LW from A in the next step leaves v in its destination register (rd # 0).
ByteOf(v, k) == (v \div Pow2(8 * k)) % 256
C9_SwWrites ==
    LET A == EffAddr(core_state, CurInstr.args)
        v == regs[CurInstr.args.rs2]
    IN  (CurInstr.op = "Sw" /\ A % 4 = 0 /\ RangeOk(A, 3) /\ at' # "aborted")
        => /\ \A k \in 0..3 : MemRead(memory', A + k) = ByteOf(v, k)
           /\ \A a \in (DOMAIN memory \cup DOMAIN memory') \ (A..(A + 3)) :
                MemRead(memory', a) = MemRead(memory, a)
C9_LwReadsBack ==
    (/\ last.op = "execute"
     /\ last.panic = "none"
     /\ LastInstr.op = "Sw"
     /\ last.addr % 4 = 0
     /\ RangeOk(last.addr, 3)
     /\ CurInstr.op = "Lw"
     /\ CurInstr.args.rd # 0
     /\ EffAddr(core_state, CurInstr.args) = last.addr
     /\ at' # "aborted")
    => regs'[CurInstr.args.rd] = last.val
C10_Loaded ==
    LET A == EffAddr(core_state, CurInstr.args) IN
    IF Width(CurInstr.op) = 1 THEN MemRead(memory, A)
    ELSE MemRead(memory, A) + 256 * MemRead(memory, A + 1)
C10_LoadExtension ==
    [][(ExecStep /\ CurInstr.op \in {"Lb", "Lh", "Lbu", "Lhu"}
            /\ CurInstr.args.rd # 0 /\ at' # "aborted")
        => regs'[CurInstr.args.rd] =
             CASE CurInstr.op = "Lb" ->
                    IF C10_Loaded < 128 THEN C10_Loaded ELSE C10_Loaded - 256
               [] CurInstr.op = "Lh" ->
                    IF C10_Loaded < 32768 THEN C10_Loaded ELSE C10_Loaded - 65536
               [] OTHER -> C10_Loaded]_vars

AluImmOps == {"Addi", "Slti", "Sltiu", "Xori", "Ori", "Andi", "Slli", "Srli", "Srai"}

\* C11: a step executing an immediate ALU instruction with rd # 0 completes
\* with regs[rd] = the named operation of regs[rs1] and the sign-extended
\* immediate (the 5-bit shamt for the shifts); ADDI adds modulo 2^32.
C11_Result ==
    LET a == regs[CurInstr.args.rs1]
        imm == CurInstr.args.imm
        shamt == CurInstr.args.shamt
    IN  CASE CurInstr.op = "Addi" -> WrapAdd(a, imm)
          [] CurInstr.op = "Slti" -> IF a < imm THEN 1 ELSE 0
          [] CurInstr.op = "Sltiu" -> IF ULt(a, imm) THEN 1 ELSE 0
          [] CurInstr.op = "Xori" -> BitXor(a, imm)
          [] CurInstr.op = "Ori" -> BitOr(a, imm)
          [] CurInstr.op = "Andi" -> BitAnd(a, imm)
          [] CurInstr.op = "Slli" -> Shl(a, shamt)
          [] CurInstr.op = "Srli" -> Shr(a, shamt)
          [] CurInstr.op = "Srai" -> Sar(a, shamt)
C11_AluImmWrites ==
    [][(ExecStep /\ CurInstr.op \in AluImmOps /\ CurInstr.args.rd # 0)
        => /\ at' # "aborted"
           /\ regs'[CurInstr.args.rd] = C11_Result]_vars

\* C12: a step executing JAL rd, imm at pc = P ends with pc = P + imm and,
\* when rd # 0, regs[rd] = P + 4; no other register changes.
C12_JalLinks ==
    [][(ExecStep /\ CurInstr.op = "Jal")
        => /\ at' # "aborted"
           /\ pc' = WrapAdd(pc, CurInstr.args.imm)
           /\ CurInstr.args.rd # 0 => regs'[CurInstr.args.rd] = WrapAdd(pc, 4)
           /\ \A i \in 0..31 : i # CurInstr.args.rd => regs'[i] = regs[i]]_vars

\* C13: a branch at pc = P is taken exactly when its comparison of regs[rs1]
\* and regs[rs2] holds (BLT/BGE signed, BLTU/BGEU unsigned); a taken branch
\* ends the step with pc = P + imm, also for a negative imm, a branch not
\* taken with pc = P + 4; no register and no memory byte changes.
C13_Taken ==
    LET a == regs[CurInstr.args.rs1]
        b == regs[CurInstr.args.rs2]
    IN  CASE CurInstr.op = "Beq" -> a = b
          [] CurInstr.op = "Bne" -> a # b
          [] CurInstr.op = "Blt" -> a < b
          [] CurInstr.op = "Bge" -> a >= b
          [] CurInstr.op = "Bltu" -> ULt(a, b)
          [] CurInstr.op = "Bgeu" -> ~ULt(a, b)
C13_Branches ==
    [][(ExecStep /\ CurInstr.op \in BranchOps)
        => /\ at' # "aborted"
           /\ pc' = WrapAdd(pc, IF C13_Taken THEN CurInstr.args.imm ELSE 4)
           /\ regs' = regs
           /\ memory' = memory]_vars

\* C14: decode yields for every word exactly the variant of the table or
\* IllegalInstruction, and IllegalInstruction for every combination that is
\* not in the table: an unknown opcode; JALR with funct3 # 0; a branch, load
\* or store funct3 without a mnemonic; SLLI/SRLI/SRAI and R-type words with
\* an unlisted funct7; system words with funct3 = 4, or with funct3 = 0 and
\* not exactly ECALL, EBREAK, MRET or WFI.  System words with funct3 in
\* {1, 2, 3, 5, 6, 7} are the CSR forms whatever their other fields are.
C14_Opcode == decode_arg % 128
C14_Funct3 == (decode_arg \div 4096) % 8
C14_Funct7 == (decode_arg \div 33554432) % 128
C14_Rd == (decode_arg \div 128) % 32
C14_None == "IllegalInstruction"
C14_Branch == <<"Beq", "Bne", C14_None, C14_None, "Blt", "Bge", "Bltu", "Bgeu">>
C14_Load == <<"Lb", "Lh", "Lw", C14_None, "Lbu", "Lhu", C14_None, C14_None>>
C14_Store == <<"Sb", "Sh", "Sw", C14_None, C14_None, C14_None, C14_None, C14_None>>
C14_OpImm == <<"Addi", "Slli", "Slti", "Sltiu", "Xori", "Srli", "Ori", "Andi">>
C14_Op == <<"Add", "Sll", "Slt", "Sltu", "Xor", "Srl", "Or", "And">>
C14_Csr == <<C14_None, "Csrrw", "Csrrs", "Csrrc", C14_None, "Csrrwi", "Csrrsi", "Csrrci">>
C14_Variants ==
    {"Lui", "Auipc", "Jal", "Jalr", "Fence", "Ecall", "Ebreak", "Mret", "Wfi",
     "Sub", "Sra", "Srai"}
    \cup {t[i] : t \in {C14_Branch, C14_Load, C14_Store, C14_OpImm, C14_Op, C14_Csr},
                 i \in 1..8}
C14_Table ==
    CASE C14_Opcode = 55 -> "Lui"                 \* 0110111
      [] C14_Opcode = 23 -> "Auipc"               \* 0010111
      [] C14_Opcode = 111 -> "Jal"                \* 1101111
      [] C14_Opcode = 103 -> IF C14_Funct3 = 0 THEN "Jalr" ELSE C14_None
      [] C14_Opcode = 99 -> C14_Branch[C14_Funct3 + 1]
      [] C14_Opcode = 3 -> C14_Load[C14_Funct3 + 1]
      [] C14_Opcode = 35 -> C14_Store[C14_Funct3 + 1]
      [] C14_Opcode = 19 ->
            IF C14_Funct3 \notin {1, 5} \/ C14_Funct7 = 0 THEN C14_OpImm[C14_Funct3 + 1]
            ELSE IF C14_Funct3 = 5 /\ C14_Funct7 = 32 THEN "Srai"
            ELSE C14_None
      [] C14_Opcode = 51 ->
            IF C14_Funct7 = 0 THEN C14_Op[C14_Funct3 + 1]
            ELSE IF C14_Funct7 = 32 /\ C14_Funct3 = 0 THEN "Sub"
            ELSE IF C14_Funct7 = 32 /\ C14_Funct3 = 5 THEN "Sra"
            ELSE C14_None
      [] C14_Opcode = 15 -> "Fence"               \* 0001111
      [] C14_Opcode = 115 ->
            IF C14_Funct3 # 0 THEN C14_Csr[C14_Funct3 + 1]
            ELSE IF decode_arg = 115 THEN "Ecall"           \* 0x00000073
            ELSE IF decode_arg = 1048691 THEN "Ebreak"      \* 0x00100073
            ELSE IF decode_arg = 807403635 THEN "Mret"      \* 0x30200073
            ELSE IF decode_arg = 273678451 THEN "Wfi"       \* 0x10500073
            ELSE C14_None
      [] OTHER -> C14_None
C14_DecodeTable ==
    at = "decoded"
    => /\ decode_ret.op \in C14_Variants
       /\ decode_ret.op = C14_Table

\* decode has rejected an ECALL word whose rd field is 1
C14_Witness ==
    /\ at = "decoded"
    /\ C14_Opcode = 115
    /\ C14_Funct3 = 0
    /\ C14_Rd = 1
    /\ decode_arg = 115 + 128
    /\ decode_ret = IllegalInstruction

\* C15: reset sets pc to 0 and mie and mpie to FALSE and changes nothing else:
\* memory, the registers, mtvec, mscratch, mepc, mcause and mtval keep the
\* values the steps before it left.
C15_ResetFrame ==
    [][at = "reset"
        => /\ pc' = 0
           /\ mie' = FALSE
           /\ mpie' = FALSE
           /\ memory' = memory
           /\ regs' = regs
           /\ mtvec' = mtvec
           /\ mscratch' = mscratch
           /\ mepc' = mepc
           /\ mcause' = mcause
           /\ mtval' = mtval]_vars

\* a reset after a test that left pc, both mode flags, a register and the
\* read-write CSRs set
C15_Witness ==
    /\ last.op = "reset"
    /\ last.pc # 0
    /\ last.mie
    /\ last.mpie
    /\ pc = 0
    /\ ~mie
    /\ ~mpie
    /\ regs[1] # 0
    /\ DOMAIN memory # {}
    /\ mtvec # 0
    /\ mscratch # 0
    /\ mepc # 0
    /\ mtval # 0

\* C16: a step executing CSRRW on mtvec, mscratch, mepc or mtval completes
\* with regs[rd] = the CSR's value before the step (rd # 0), the CSR = the
\* value regs[rs1] had before the step, also when rd = rs1, and pc advanced
\* by 4.
C16_Csr == get_csr(CurInstr.args.csr)
C16_Old ==
    CASE C16_Csr = "MTvec" -> mtvec
      [] C16_Csr = "MScratch" -> mscratch
      [] C16_Csr = "MEpc" -> mepc
      [] C16_Csr = "MTVal" -> mtval
C16_CsrrwSwap ==
    [][(ExecStep /\ CurInstr.op = "Csrrw"
            /\ C16_Csr \in {"MTvec", "MScratch", "MEpc", "MTVal"})
        => /\ at' # "aborted"
           /\ CurInstr.args.rd # 0 => regs'[CurInstr.args.rd] = C16_Old
           /\ C16_Csr = "MTvec" => mtvec' = regs[CurInstr.args.rs1]
           /\ C16_Csr = "MScratch" => mscratch' = regs[CurInstr.args.rs1]
           /\ C16_Csr = "MEpc" => mepc' = regs[CurInstr.args.rs1]
           /\ C16_Csr = "MTVal" => mtval' = regs[CurInstr.args.rs1]
           /\ pc' = WrapAdd(pc, 4)]_vars

\* csrrw x1, mscratch, x1 has swapped x1 = 0x2000 and mscratch = 0x1000
C16_Witness ==
    /\ LastCompleted
    /\ LastInstr.op = "Csrrw"
    /\ get_csr(LastInstr.args.csr) = "MScratch"
    /\ LastInstr.args.rd = 1
    /\ LastInstr.args.rs1 = 1
    /\ regs[1] = 4096
    /\ mscratch = 8192
    /\ pc = last.pc + 4

\* C17: a step executing a CSR instruction whose address is not one of the 14
\* mapped addresses raises IllegalInstruction: it completes with mcause = 2,
\* mepc = the pc of the instruction and pc = mtvec, and regs[rd] is not
\* written.
C17_UnmappedCsrTrap ==
    [][(ExecStep /\ CurInstr.op \in CsrOps /\ get_csr(CurInstr.args.csr) = "None")
        => /\ at' # "aborted"
           /\ get_cause_value(mcause') = 2
           /\ mepc' = pc
           /\ pc' = mtvec
           /\ regs'[CurInstr.args.rd] = regs[CurInstr.args.rd]]_vars

\* C18: a step executing CSRRS, CSRRC, CSRRWI, CSRRSI or CSRRCI on a
\* read-write CSR completes with regs[rd] = the CSR's old value (rd # 0) and
\* the CSR = old | src, old & ~src or src, where src is regs[rs1] or, for the
\* immediate forms, the 5-bit immediate; after CSRRS on mscratch with source
\* s, mscratch = old | s.
C18_Csr == get_csr(CurInstr.args.csr)
C18_Old ==
    CASE C18_Csr = "MTvec" -> mtvec
      [] C18_Csr = "MScratch" -> mscratch
      [] C18_Csr = "MEpc" -> mepc
      [] C18_Csr = "MTVal" -> mtval
C18_Src ==
    IF CurInstr.op \in {"Csrrs", "Csrrc"} THEN regs[CurInstr.args.rs1]
    ELSE CurInstr.args.rs1
C18_New ==
    CASE CurInstr.op \in {"Csrrs", "Csrrsi"} -> BitOr(C18_Old, C18_Src)
      [] CurInstr.op \in {"Csrrc", "Csrrci"} -> BitAnd(C18_Old, BitXor(C18_Src, -1))
      [] CurInstr.op = "Csrrwi" -> C18_Src
C18_CsrSetClear ==
    [][(ExecStep /\ CurInstr.op \in CsrOps \ {"Csrrw"}
            /\ C18_Csr \in {"MTvec", "MScratch", "MEpc", "MTVal"})
        => /\ at' # "aborted"
           /\ CurInstr.args.rd # 0 => regs'[CurInstr.args.rd] = C18_Old
           /\ C18_Csr = "MTvec" => mtvec' = C18_New
           /\ C18_Csr = "MScratch" => mscratch' = C18_New
           /\ C18_Csr = "MEpc" => mepc' = C18_New
           /\ C18_Csr = "MTVal" => mtval' = C18_New]_vars

\* C19: the read-only CSRs are constant: in every state a read of mvendorid,
\* marchid, mimpid, mhartid, mconfigptr, mie or mip gives 0 and a read of misa
\* gives 0x40001100; a step executing a CSR instruction on one of them
\* completes without an exception and changes no CSR, and a CSRRW leaves the
\* constant in rd (rd # 0) whatever was written before.
C19_ZeroCsrs == {"MVendorId", "MArchId", "MImpId", "MHartId", "MConfigPtr", "MIe", "MIp"}
C19_Const(csr) == IF csr = "MIsa" THEN 1073746176 ELSE 0
C19_ReadsConstant ==
    \A csr \in C19_ZeroCsrs \cup {"MIsa"} : get_csr_value(core_state, csr) = C19_Const(csr)
C19_WriteDiscarded ==
    (ExecStep /\ CurInstr.op \in CsrOps
        /\ get_csr(CurInstr.args.csr) \in C19_ZeroCsrs \cup {"MIsa"})
    => /\ at' # "aborted"
       /\ pc' = WrapAdd(pc, 4)
       /\ mie' = mie
       /\ mpie' = mpie
       /\ mtvec' = mtvec
       /\ mscratch' = mscratch
       /\ mepc' = mepc
       /\ mcause' = mcause
       /\ mtval' = mtval
       /\ (CurInstr.op = "Csrrw" /\ CurInstr.args.rd # 0)
            => regs'[CurInstr.args.rd] = C19_Const(get_csr(CurInstr.args.csr))
C19_ReadOnlyCsrs == []C19_ReadsConstant /\ [][C19_WriteDiscarded]_vars

\* csrrw x3, misa, x0 has read 0x40001100 after csrrw x2, misa, x1 wrote
\* x1 = 0x004000EF to misa
C19_Witness ==
    /\ LastCompleted
    /\ last.word = 806359539
    /\ LastInstr.op = "Csrrw"
    /\ get_csr(LastInstr.args.csr) = "MIsa"
    /\ regs[1] = 4194543
    /\ regs[2] = 1073746176
    /\ regs[3] = 1073746176
    /\ mcause = "HardwareError"

\* C20: a step executing JALR rd, rs1, imm at pc = P ends with
\* pc = (r + imm) & ~1, r the value of regs[rs1] before the step, so with
\* bit 0 of pc clear, and with regs[rd] = P + 4 when rd # 0, also when
\* rd = rs1.
C20_JalrTarget ==
    [][(ExecStep /\ CurInstr.op = "Jalr")
        => /\ at' # "aborted"
           /\ pc' = BitAnd(WrapAdd(regs[CurInstr.args.rs1], CurInstr.args.imm), -2)
           /\ pc' % 2 = 0
           /\ CurInstr.args.rd # 0 => regs'[CurInstr.args.rd] = WrapAdd(pc, 4)]_vars

\* C21: the arithmetic of a step wraps modulo 2^32 and never aborts the step
\* on overflow: no step ends in an overflow panic, ADD and SUB leave the
\* wrapped sum and difference in rd and AUIPC the wrapped imm + pc (rd # 0).
C21_Result ==
    CASE CurInstr.op = "Add" ->
            WrapAdd(regs[CurInstr.args.rs1], regs[CurInstr.args.rs2])
      [] CurInstr.op = "Sub" ->
            WrapSub(regs[CurInstr.args.rs1], regs[CurInstr.args.rs2])
      [] CurInstr.op = "Auipc" -> WrapAdd(CurInstr.args.imm, pc)
C21_WrapAround ==
    [][ExecStep
        => /\ last'.panic # "overflow"
           /\ (CurInstr.op \in {"Add", "Sub", "Auipc"} /\ CurInstr.args.rd # 0)
                => /\ at' # "aborted"
                   /\ regs'[CurInstr.args.rd] = C21_Result]_vars

\* C22: a step that raises an exception overwrites mtval: with 0 for ECALL
\* and EBREAK, whatever mtval held before, and with the offending word for an
\* illegal instruction (a word that does not decode, or a CSR instruction
\* with an unmapped address).
C22_Illegal ==
    /\ CurFetch.panic = "none"
    /\ \/ CurInstr.op = "IllegalInstruction"
       \/ CurInstr.op \in CsrOps /\ get_csr(CurInstr.args.csr) = "None"
C22_TrapSetsMtval ==
    [][ExecStep
        => /\ CurInstr.op \in {"Ecall", "Ebreak"} => mtval' = 0
           /\ C22_Illegal => mtval' = CurFetch.word]_vars

\* C23: the immediate decode returns has the shape of the instruction's
\* format: I and S are the sign-extended 12-bit fields (-2048..2047); B is
\* even, in -4096..4094, made of bit 31, bit 7, bits 30:25 and bits 11:8; U is
\* the word with its low 12 bits cleared; J is even, in -1048576..1048574,
\* made of bit 31, bits 19:12, bit 20 and bits 30:21; the sign of every
\* immediate but U is bit 31 of the word.
C23_Bits(lo, n) == (decode_arg \div Pow2(lo)) % Pow2(n)
C23_Bit31 == IF decode_arg < 0 THEN 1 ELSE 0
C23_SignExtend(u, n) == IF u >= Pow2(n - 1) THEN u - Pow2(n) ELSE u
C23_I == C23_SignExtend(C23_Bits(20, 12), 12)
C23_S == C23_SignExtend(32 * C23_Bits(25, 7) + C23_Bits(7, 5), 12)
C23_B ==
    C23_SignExtend(4096 * C23_Bit31 + 2048 * C23_Bits(7, 1) + 32 * C23_Bits(25, 6)
                   + 2 * C23_Bits(8, 4), 13)
C23_U == decode_arg - (decode_arg % 4096)
C23_J ==
    C23_SignExtend(1048576 * C23_Bit31 + 4096 * C23_Bits(12, 8) + 2048 * C23_Bits(20, 1)
                   + 2 * C23_Bits(21, 10), 21)
C23_IOps == {"Jalr"} \cup LoadOps \cup AluImmOps \cup CsrOps
C23_Signed(imm) == (imm < 0) <=> (decode_arg < 0)
C23_ImmediateShapes ==
    at = "decoded"
    => LET op == decode_ret.op
           imm == decode_ret.args.imm
       IN  /\ op \in C23_IOps
                => imm = C23_I /\ imm \in -2048..2047 /\ C23_Signed(imm)
           /\ op \in StoreOps
                => imm = C23_S /\ imm \in -2048..2047 /\ C23_Signed(imm)
           /\ op \in BranchOps
                => /\ imm = C23_B
                   /\ imm \in -4096..4094
                   /\ imm % 2 = 0
                   /\ C23_Signed(imm)
           /\ op \in {"Lui", "Auipc"} => imm = C23_U /\ imm % 4096 = 0
           /\ op = "Jal"
                => /\ imm = C23_J
                   /\ imm \in -1048576..1048574
                   /\ imm % 2 = 0
                   /\ C23_Signed(imm)

\* decode has returned BEQ with the immediate -2 for a word whose bit 31,
\* bit 7, bits 30:25 and bits 11:8 are all set
C23_Witness ==
    /\ at = "decoded"
    /\ decode_arg < 0
    /\ C23_Bits(7, 5) = 31
    /\ C23_Bits(25, 6) = 63
    /\ decode_ret.op = "Beq"
    /\ decode_ret.args.imm = -2

\* C24: a step whose instruction raises no exception changes no register but
\* regs[rd]; it changes memory only when the instruction is SB, SH or SW, and
\* then only the 1, 2 or 4 bytes at the effective address; it changes mie,
\* mpie, mtvec, mscratch, mepc and mtval only when it is a CSR instruction,
\* and never mcause.  FENCE changes nothing but pc, which advances by 4.
C24_RdOps ==
    {"Lui", "Auipc", "Jal", "Jalr"} \cup LoadOps \cup AluImmOps \cup CsrOps
    \cup {"Add", "Sub", "Sll", "Slt", "Sltu", "Xor", "Srl", "Sra", "Or", "And"}
C24_Rd == IF CurInstr.op \in C24_RdOps THEN {CurInstr.args.rd} ELSE {}
C24_Written ==
    IF CurInstr.op \in StoreOps
    THEN LET A == EffAddr(core_state, CurInstr.args)
         IN  A..(A + Width(CurInstr.op) - 1)
    ELSE {}
C24_StepFrame ==
    [][(ExecStep /\ ~last'.exception)
        => /\ \A i \in (0..31) \ C24_Rd : regs'[i] = regs[i]
           /\ \A a \in (DOMAIN memory \cup DOMAIN memory') \ C24_Written :
                MemRead(memory', a) = MemRead(memory, a)
           /\ CurInstr.op \notin CsrOps
                => /\ mie' = mie
                   /\ mpie' = mpie
                   /\ mtvec' = mtvec
                   /\ mscratch' = mscratch
                   /\ mepc' = mepc
                   /\ mtval' = mtval
           /\ mcause' = mcause
           /\ CurInstr.op = "Fence"
                => /\ at' # "aborted"
                   /\ pc' = WrapAdd(pc, 4)
                   /\ regs' = regs
                   /\ memory' = memory]_vars

\* sh x1, 16(x0) has written the two low bytes of x1 = 0xDEADB1B7 and left
\* the bytes around them, the registers and the CSRs alone
C24_Witness ==
    /\ LastCompleted
    /\ LastInstr.op = "Sh"
    /\ last.addr = 16
    /\ last.val = -559042121
    /\ MemRead(memory, 15) = 0
    /\ MemRead(memory, 16) = 183
    /\ MemRead(memory, 17) = 177
    /\ MemRead(memory, 18) = 0
    /\ regs[1] = -559042121
    /\ regs[2] = 0
    /\ mcause = "HardwareError"
    /\ pc = last.pc + 4

====
